---- MODULE Spec2Model ----
(***************************************************************************)
(* The four command-line chat loops of the repository (gtmRagChat,         *)
(* spanishChat, taskChat, therapyChat) as one state machine.  A session    *)
(* runs one variant: start_chat constructs the ChatSystem and then reads   *)
(* one input line per loop iteration.                                      *)
(*                                                                         *)
(* Texts (Python str) are sequences of tokens.  A token is one character   *)
(* (" ", ":", "|", "]", "a", "A", ...) or one fixed piece of text that the *)
(* code only ever handles as a whole (a reserved command prefix such as    *)
(* "delete task:", a fixed prompt, a file name).  An optional value        *)
(* (Python None or a value) is a sequence of length 0 or 1.                *)
(***************************************************************************)
EXTENDS Integers, Sequences, FiniteSets, TLC

\* ------------------------------------------------------------- bounds
\* completion calls (ollama.chat) one session may make
MaxCalls == 4
\* task commands (add / complete / delete / list) one session may run
MaxTaskOps == 3
\* the last calendar day the session's clock may reach (it starts on day 1)
MaxDay == 2
\* inputs (completion calls and task commands together) one task session handles
MaxTaskSession == 4

\* -------------------------------------------------- program constants
\* conversation_history[-5:] in the GTM, Spanish and task variants
WINDOW == 5
\* conversation_history[-25:] in the therapy variant
THERAPY_WINDOW == 25
\* search_documents(query, k=9)
K == 9

\* ------------------------------------------------------ str operations
None == <<>>
Some(v) == <<v>>

Min(a, b) == IF a <= b THEN a ELSE b

\* str.strip() with no argument strips white space
WS == {" "}

RECURSIVE LStrip(_, _)
LStrip(s, cs) ==
    IF s # <<>> /\ Head(s) \in cs THEN LStrip(Tail(s), cs) ELSE s

RECURSIVE RStrip(_, _)
RStrip(s, cs) ==
    IF s # <<>> /\ s[Len(s)] \in cs THEN RStrip(SubSeq(s, 1, Len(s) - 1), cs) ELSE s

\* s.strip(cs)
Strip(s, cs) == RStrip(LStrip(s, cs), cs)

LowerTok(t) ==
    CASE t = "A" -> "a"
      [] t = "QUIT" -> "quit"
      [] t = "CMD QUIT" -> "cmd quit"
      [] t = "DELETE TASK:" -> "delete task:"
      [] OTHER -> t

\* s.lower()
Lower(s) == [i \in 1..Len(s) |-> LowerTok(s[i])]

\* s.startswith(p)
StartsWith(s, p) == Len(s) >= Len(p) /\ SubSeq(s, 1, Len(p)) = p

\* sub in s
Contains(s, sub) ==
    \E i \in 0..(Len(s) - Len(sub)) : SubSeq(s, i + 1, i + Len(sub)) = sub

\* s.split(sep)
RECURSIVE Split(_, _)
Split(s, sep) ==
    IF \A i \in 1..Len(s) : s[i] # sep
    THEN <<s>>
    ELSE LET i == CHOOSE j \in 1..Len(s) :
                      s[j] = sep /\ \A k \in 1..(j - 1) : s[k] # sep
         IN  <<SubSeq(s, 1, i - 1)>> \o Split(SubSeq(s, i + 1, Len(s)), sep)

\* h[:n] in place of h[-n:]
LastN_FirstN(h, n) == SubSeq(h, 1, Min(n, Len(h)))

\* h[-n:]
LastN(h, n) == IF Len(h) <= n THEN h ELSE SubSeq(h, Len(h) - n + 1, Len(h))

\* os.path.basename of a path given as its components
Basename(p) == IF p = <<>> THEN "" ELSE p[Len(p)]

\* create_message(message, role)
create_message(message, role) == [role |-> role, content |-> message]

\* ------------------------------------------------------------- state
VARIABLES
    variant,               \* which script runs: "gtm", "spanish", "task", "therapy"
    pc,                    \* "new" (before ChatSystem()), "loop", "done", "crashed"
    today,                 \* datetime.now() as a day number
    conversation_history,  \* self.conversation_history
    system_messages,       \* therapy: self.system_messages (the cached list)
    past_chats_context,    \* spanish, therapy: self.past_chats_context
    articles,              \* gtm: the PDFs lying in memory/gtm/articles
    failing,               \* gtm: the PDFs whose load, split, embed or insert raises
    vectordb,              \* gtm: the chunks held by self.vectordb
    retrieved,             \* gtm: what the last search_documents call saw and returned
    messages,              \* the messages list last handed to ollama.chat
    user_input,            \* the line the loop read last (stripped)
    printed,               \* what the last loop iteration printed
    chat_file,             \* spanish, therapy: the transcript written by save_current_chat
    tasks_data,            \* task: self.tasks_data, the cache (None or the dict)
    tasks_text,            \* task: self.texts['tasks.txt']
    tasks_file,            \* task: the content of memory/tasks.txt on disk
    task_ops,              \* task commands run so far
    calls,                 \* completion calls made so far
    cycles                 \* completion calls that returned a reply

vars == <<variant, pc, today, conversation_history, system_messages,
          past_chats_context, articles, failing, vectordb, retrieved, messages, user_input,
          printed, chat_file, tasks_data, tasks_text, tasks_file, task_ops,
          calls, cycles>>

Variants == {"gtm", "spanish", "task", "therapy"}

\* ------------------------------------------------------ system prompts
GTM_SYSTEM == <<"You are a helpful GTM (Go-to-Market) strategy assistant.">>
SPANISH_SYSTEM == <<"You are a helpful Spanish (Mexican) tutor.">>
TASK_SYSTEM == <<"You are a helpful assistant.">>
THERAPY_MESSAGE1 == <<"You always maintain a keen awareness of the history.">>
THERAPY_MESSAGE2 == <<"You are an intelligent therapist.">>

\* str(sources): the Python repr of a list of file names
Repr(sources) == <<"[">> \o sources \o <<"]">>

\* gtm process_query: the two system messages built for one query
GtmSystemMessages(context, sources) ==
    << create_message(GTM_SYSTEM, "system"),
       create_message(<<"Here is the relevant context from the GTM documents:\n\n">>
                        \o context
                        \o <<"\n\nRemember to cite these sources at the end of your response: ">>
                        \o Repr(sources),
                      "system") >>

\* spanish process_query: the two system messages built for one query
SpanishSystemMessages(past) ==
    << create_message(SPANISH_SYSTEM, "system"),
       create_message(<<"Here are the most recent previous conversations for context:\n">>
                        \o past,
                      "system") >>

\* task process_query: the system message built for one query
TaskSystemMessages == << create_message(TASK_SYSTEM, "system") >>

\* therapy init_system_messages: the list stored in self.system_messages
init_system_messages(past) ==
    << create_message(THERAPY_MESSAGE1, "system"),
       create_message(THERAPY_MESSAGE2, "system"),
       create_message(<<"Here are the previous chat sessions for context:\n">> \o past,
                      "system") >>

\* ------------------------------------------------- the GTM document store
\* what PyPDFDirectoryLoader and the text splitter make of the PDFs that may
\* lie in memory/gtm/articles: per file, its path and its chunks' texts
DocA == [source |-> <<"memory", "gtm/articles", "A.pdf">>,
         chunks |-> << <<"pricing">>, <<"strategy">> >>]
DocB == [source |-> <<"memory", "gtm/articles", "B.pdf">>,
         chunks |-> << <<"launch">> >>]
Docs == {DocA, DocB}

\* load_documents: every PDF of the directory
load_documents(directory) == directory

\* split_documents: the chunks of the loaded documents, each with its source
split_documents(documents) ==
    UNION { { [source |-> d.source, page_content |-> d.chunks[i]] :
                i \in 1..Len(d.chunks) } : d \in documents }

\* the result lists vectordb.similarity_search(query, k) may return: the k
\* chunks nearest to the query (all of them when the index holds fewer), in
\* the order the index ranks them
SimilaritySearch(db, k) ==
    LET n == Min(k, Cardinality(db))
    IN  { r \in [1..n -> db] : \A i, j \in 1..n : r[i] = r[j] => i = j }

Range(s) == { s[i] : i \in 1..Len(s) }

\* the loop without its `if source not in sources` test
RECURSIVE search_loop_NoDedup(_, _, _)
search_loop_NoDedup(results, context, sources) ==
    IF results = <<>>
    THEN [context |-> context, sources |-> sources]
    ELSE LET doc == Head(results)
             source == Basename(doc.source)
         IN  search_loop_NoDedup(Tail(results),
                                 context \o <<"\nFrom ", source, ":\n">>
                                         \o doc.page_content \o <<"\n">>,
                                 Append(sources, source))

\* the for loop of search_documents over the results not yet visited
RECURSIVE search_loop(_, _, _)
search_loop(results, context, sources) ==
    IF results = <<>>
    THEN [context |-> context, sources |-> sources]
    ELSE LET doc == Head(results)
             source == Basename(doc.source)
         IN  search_loop(Tail(results),
                         context \o <<"\nFrom ", source, ":\n">>
                                 \o doc.page_content \o <<"\n">>,
                         IF source \notin Range(sources)
                         THEN Append(sources, source) ELSE sources)

\* search_documents, given what similarity_search returned
search_documents(results) == search_loop(results, <<>>, <<>>)

\* ------------------------------------------------------- transcripts
\* the past transcripts a chats directory may hold when the session starts
PastChats == { <<>>, <<"\nChat History chat_1.txt:\n", "User", ": ", "hola", "\n", "\n---">> }

\* save_current_chat: the text written to the new chat file
RECURSIVE chat_content(_)
chat_content(history) ==
    IF history = <<>>
    THEN <<>>
    ELSE <<IF Head(history).role = "user" THEN "User" ELSE "Assistant", ": ">>
           \o Head(history).content \o <<"\n">> \o chat_content(Tail(history))

\* ------------------------------------------------------- the task file
\* the dict __init__ writes to a tasks.txt that does not exist yet
initial_tasks == [open_tasks |-> <<>>, completed_tasks |-> <<>>]

\* json.dumps / json.loads of the tasks dict
json_dumps(d) == [json |-> d]
json_loads(t) == t.json

\* datetime.now().strftime("%Y-%m-%d")
strftime(day) == <<day>>

\* ---------------------------------------------------------------- Init
Init ==
    /\ variant \in Variants
    /\ pc = "new"
    /\ today = 1
    /\ conversation_history = <<>>
    /\ system_messages = None
    /\ past_chats_context = <<>>
    /\ articles \in (IF variant = "gtm" THEN SUBSET Docs ELSE {{}})
    /\ failing \in SUBSET articles
    /\ vectordb = {}
    /\ retrieved = [results |-> <<>>, context |-> <<>>, sources |-> <<>>]
    /\ messages = <<>>
    /\ user_input = <<>>
    /\ printed = <<>>
    /\ chat_file = None
    /\ tasks_data = None
    /\ tasks_text = None
    /\ tasks_file = None
    /\ task_ops = 0
    /\ calls = 0
    /\ cycles = 0

\* ----------------------------------------------------- construction
\* start_chat: chat_system = ChatSystem(), outside the loop's try.
\* gtm: load, split, embed and insert every PDF.  __init__ catches nothing,
\* so an exception raised for one PDF propagates out of start_chat and ends
\* the process before any chunk is inserted.
StartChatGtm ==
    /\ pc = "new" /\ variant = "gtm"
    /\ IF failing = {}
       THEN /\ vectordb' = split_documents(load_documents(articles))
            /\ pc' = "loop"
            /\ printed' = <<"Welcome to the GTM Strategy Assistant!">>
       ELSE /\ vectordb' = {}
            /\ pc' = "crashed"
            /\ printed' = <<"Traceback (most recent call last):">>
    /\ UNCHANGED <<variant, today, articles, failing, conversation_history, system_messages,
                   past_chats_context, retrieved, messages, user_input, chat_file,
                   tasks_data, tasks_text, tasks_file, task_ops, calls, cycles>>

\* spanish: load_past_chats
StartChatSpanish ==
    /\ pc = "new" /\ variant = "spanish"
    /\ past_chats_context' \in PastChats
    /\ pc' = "loop"
    /\ printed' = <<"Welcome to the Spanish Chat System!">>
    /\ UNCHANGED <<variant, today, conversation_history, system_messages,
                   articles, failing, vectordb,
                   retrieved, messages, user_input, chat_file,
                   tasks_data, tasks_text, tasks_file, task_ops, calls, cycles>>

\* therapy: load_past_chats, then init_system_messages fills the cache
StartChatTherapy ==
    /\ pc = "new" /\ variant = "therapy"
    /\ \E past \in PastChats :
         /\ past_chats_context' = past
         /\ system_messages' = Some(init_system_messages(past))
    /\ pc' = "loop"
    /\ printed' = <<"Welcome to the Therapy Chat System!">>
    /\ UNCHANGED <<variant, today, conversation_history,
                   articles, failing, vectordb,
                   retrieved, messages, user_input, chat_file,
                   tasks_data, tasks_text, tasks_file, task_ops, calls, cycles>>

\* task: tasks.txt is created with the two empty lists, load_documents reads it
StartChatTask ==
    /\ pc = "new" /\ variant = "task"
    /\ tasks_file' = Some(json_dumps(initial_tasks))
    /\ tasks_text' = Some(json_dumps(initial_tasks))
    /\ pc' = "loop"
    /\ printed' = <<"Welcome to the Task Management Chat System!">>
    /\ UNCHANGED <<variant, today, conversation_history, system_messages,
                   past_chats_context, articles, failing, vectordb, retrieved,
                   messages, user_input, chat_file, tasks_data, task_ops, calls,
                   cycles>>

\* ------------------------------------------------------ the input lines
\* what the completion endpoint may answer
Replies == { <<"si">> }
\* spanish: an answer may run over several lines
SpanishReplies ==
    Replies \cup { <<"si", "\n", "User", ": ", "a", "\n", "Assistant", ": ", "si">> }
\* gtm: an answer may already end with its list of sources
GtmReplies == { <<"si">>, <<"si", "]", " ">> }

GtmInputs == { <<" ", "a", " ">>, <<"quit">>, <<" ", "QUIT">> }

SpanishInputs == { <<"a">>, <<" ", "b", " ">>, <<"cmd quit">>, <<"CMD QUIT", " ">> }

TherapyInputs ==
    { <<" ", "a", " ">>, <<"cmd quit">>, <<"CMD QUIT", " ">>,
      <<"DELETE TASK:", " ", "a">>, <<"delete task:", " ">>,
      <<"delete task:", " ", "z">> }

\* input lines that hold nothing but white space
BlankInputs == { <<>>, <<" ">> }

envVars == <<variant, today, past_chats_context, articles, failing, vectordb>>
taskVars == <<tasks_data, tasks_text, tasks_file, task_ops>>

\* messages.extend(self.conversation_history[-5:]);
\* messages.append(self.create_message(query, 'user'))
WindowMessages(system, history, query) ==
    system \o LastN(history, WINDOW) \o <<create_message(query, "user")>>

\* the two appends after a reply in the gtm, spanish and task variants
AppendExchange(history, query, response_content) ==
    history \o <<create_message(query, "user"),
                 create_message(response_content, "assistant")>>

\* print(f"\nError: {str(e)}\n") of the loop's except Exception
ErrorLine == <<"\nError: ">>

\* ------------------------------------------------------ every variant
\* the loop reads a blank line: continue (gtm, spanish, therapy), or
\* `if user_input:` is false (task)
EmptyInput ==
    /\ pc = "loop"
    /\ \E raw \in BlankInputs :
         /\ Strip(raw, WS) = <<>>
         /\ user_input' = Strip(raw, WS)
    /\ printed' = <<>>
    /\ UNCHANGED <<envVars, taskVars, pc, conversation_history, system_messages,
                   retrieved, messages, chat_file, calls, cycles>>

\* except KeyboardInterrupt: print("\nGoodbye!"); break
KeyboardInterrupt ==
    /\ pc = "loop"
    /\ pc' = "done"
    /\ printed' = <<"\nGoodbye!">>
    /\ UNCHANGED <<envVars, taskVars, conversation_history, system_messages,
                   retrieved, messages, user_input, chat_file, calls, cycles>>

\* ---------------------------------------------------------------- gtm
\* process_query("quit") returns "Goodbye!", the loop prints it and breaks
GtmQuit ==
    /\ pc = "loop" /\ variant = "gtm"
    /\ \E raw \in GtmInputs :
         LET query == Strip(raw, WS) IN
         /\ query # <<>>
         /\ Lower(query) = <<"quit">>
         /\ user_input' = query
         /\ printed' = <<"Goodbye!">>
         /\ pc' = "done"
    /\ UNCHANGED <<envVars, taskVars, conversation_history, system_messages,
                   retrieved, messages, chat_file, calls, cycles>>

\* search_documents raises with no `except Exception` around the turn
GtmSearchFailed_Uncaught ==
    /\ pc = "loop" /\ variant = "gtm"
    /\ \E raw \in GtmInputs :
         LET query == Strip(raw, WS) IN
         /\ query # <<>>
         /\ Lower(query) # <<"quit">>
         /\ user_input' = query
         /\ printed' = ErrorLine \o <<"EmbeddingUnavailable">>
    /\ pc' = "crashed"
    /\ UNCHANGED <<envVars, taskVars, conversation_history, system_messages,
                   retrieved, messages, chat_file, calls, cycles>>

\* similarity_search raises (the embedding endpoint cannot be reached)
GtmSearchFailed ==
    /\ pc = "loop" /\ variant = "gtm"
    /\ \E raw \in GtmInputs :
         LET query == Strip(raw, WS) IN
         /\ query # <<>>
         /\ Lower(query) # <<"quit">>
         /\ user_input' = query
         /\ printed' = ErrorLine \o <<"EmbeddingUnavailable">>
    /\ UNCHANGED <<envVars, taskVars, pc, conversation_history, system_messages,
                   retrieved, messages, chat_file, calls, cycles>>

\* response_content after `if not response_content.strip().endswith(']')`
GtmResponseContent(reply, sources) ==
    LET stripped == Strip(reply, WS) IN
    IF stripped # <<>> /\ stripped[Len(stripped)] = "]"
    THEN reply
    ELSE reply \o <<"\n\nSources: ">> \o Repr(sources)

\* a chat query whose ollama.chat call raises
GtmChatFailed ==
    /\ pc = "loop" /\ variant = "gtm" /\ calls < MaxCalls
    /\ \E raw \in GtmInputs, results \in SimilaritySearch(vectordb, K) :
         LET query == Strip(raw, WS)
             found == search_documents(results)
         IN
         /\ query # <<>>
         /\ Lower(query) # <<"quit">>
         /\ user_input' = query
         /\ retrieved' = [results |-> results, context |-> found.context,
                          sources |-> found.sources]
         /\ messages' = WindowMessages(GtmSystemMessages(found.context, found.sources),
                                       conversation_history, query)
         /\ printed' = ErrorLine \o <<"CompletionFailed">>
    /\ calls' = calls + 1
    /\ UNCHANGED <<envVars, taskVars, pc, conversation_history, system_messages,
                   chat_file, cycles>>

\* a chat query answered by the completion endpoint
GtmChatReply ==
    /\ pc = "loop" /\ variant = "gtm" /\ calls < MaxCalls
    /\ \E raw \in GtmInputs, results \in SimilaritySearch(vectordb, K),
          reply \in GtmReplies :
         LET query == Strip(raw, WS)
             found == search_documents(results)
             response_content == GtmResponseContent(reply, found.sources)
         IN
         /\ query # <<>>
         /\ Lower(query) # <<"quit">>
         /\ user_input' = query
         /\ retrieved' = [results |-> results, context |-> found.context,
                          sources |-> found.sources]
         /\ messages' = WindowMessages(GtmSystemMessages(found.context, found.sources),
                                       conversation_history, query)
         /\ conversation_history' =
                AppendExchange(conversation_history, query, response_content)
         /\ printed' = response_content
    /\ calls' = calls + 1
    /\ cycles' = cycles + 1
    /\ UNCHANGED <<envVars, taskVars, pc, system_messages, chat_file>>

\* ------------------------------------------------------------ spanish
\* "cmd quit" answered like the gtm "quit": no save_current_chat
SpanishQuit_NoSave ==
    /\ pc = "loop" /\ variant = "spanish"
    /\ \E raw \in SpanishInputs :
         LET query == Strip(raw, WS) IN
         /\ query # <<>>
         /\ Lower(query) = <<"cmd quit">>
         /\ user_input' = query
         /\ printed' = <<"Goodbye!">>
         /\ pc' = "done"
    /\ UNCHANGED <<envVars, taskVars, conversation_history, system_messages,
                   retrieved, messages, chat_file, calls, cycles>>

\* "cmd quit": save_current_chat, which catches its own exception; the loop
\* prints the answer and breaks
SpanishQuit ==
    /\ pc = "loop" /\ variant = "spanish"
    /\ \E raw \in SpanishInputs, saved \in BOOLEAN :
         LET query == Strip(raw, WS) IN
         /\ query # <<>>
         /\ Lower(query) = <<"cmd quit">>
         /\ user_input' = query
         /\ IF saved
            THEN /\ chat_file' = Some(chat_content(conversation_history))
                 /\ printed' = <<"Chat history saved. Goodbye!">>
            ELSE /\ chat_file' = chat_file
                 /\ printed' = <<"Error saving chat history: ",
                                 "Error saving chat history. Goodbye anyway!">>
         /\ pc' = "done"
    /\ UNCHANGED <<envVars, taskVars, conversation_history, system_messages,
                   retrieved, messages, calls, cycles>>

SpanishChatFailed ==
    /\ pc = "loop" /\ variant = "spanish" /\ calls < MaxCalls
    /\ \E raw \in SpanishInputs :
         LET query == Strip(raw, WS) IN
         /\ query # <<>>
         /\ Lower(query) # <<"cmd quit">>
         /\ user_input' = query
         /\ messages' = WindowMessages(SpanishSystemMessages(past_chats_context),
                                       conversation_history, query)
         /\ printed' = ErrorLine \o <<"CompletionFailed">>
    /\ calls' = calls + 1
    /\ UNCHANGED <<envVars, taskVars, pc, conversation_history, system_messages,
                   retrieved, chat_file, cycles>>

SpanishChatReply ==
    /\ pc = "loop" /\ variant = "spanish" /\ calls < MaxCalls
    /\ \E raw \in SpanishInputs, reply \in SpanishReplies :
         LET query == Strip(raw, WS) IN
         /\ query # <<>>
         /\ Lower(query) # <<"cmd quit">>
         /\ user_input' = query
         /\ messages' = WindowMessages(SpanishSystemMessages(past_chats_context),
                                       conversation_history, query)
         /\ conversation_history' = AppendExchange(conversation_history, query, reply)
         /\ printed' = reply
    /\ calls' = calls + 1
    /\ cycles' = cycles + 1
    /\ UNCHANGED <<envVars, taskVars, pc, system_messages, retrieved, chat_file>>

\* ------------------------------------------------------------ therapy
\* the new_history loop of the "delete task:" branch: the messages whose
\* content does not hold task_name
RECURSIVE new_history(_, _)
new_history(history, task_name) ==
    IF history = <<>>
    THEN <<>>
    ELSE (IF Contains(Head(history).content, task_name)
          THEN <<>> ELSE <<Head(history)>>)
         \o new_history(Tail(history), task_name)

\* the history the "delete task:" branch leaves
TherapyDeleteHistory(history, task_name) ==
    IF \E i \in 1..Len(history) : Contains(history[i].content, task_name)
    THEN new_history(history, task_name)
    ELSE history

\* "delete task: <text>" in the therapy script
TherapyDelete ==
    /\ pc = "loop" /\ variant = "therapy"
    /\ \E raw \in TherapyInputs :
         LET query == Strip(raw, WS)
             task_name == Strip(Tail(query), WS)
             task_found == \E i \in 1..Len(conversation_history) :
                               Contains(conversation_history[i].content, task_name)
         IN
         /\ query # <<>>
         /\ StartsWith(Lower(query), <<"delete task:">>)
         /\ user_input' = query
         /\ conversation_history' =
                TherapyDeleteHistory(conversation_history, task_name)
         /\ printed' = IF task_found
                       THEN <<"Task '">> \o task_name \o <<"' has been deleted.">>
                       ELSE <<"Task '">> \o task_name \o <<"' not found.">>
    /\ UNCHANGED <<envVars, taskVars, pc, system_messages, retrieved, messages,
                   chat_file, calls, cycles>>

\* "cmd quit" in the therapy script
TherapyQuit ==
    /\ pc = "loop" /\ variant = "therapy"
    /\ \E raw \in TherapyInputs, saved \in BOOLEAN :
         LET query == Strip(raw, WS) IN
         /\ query # <<>>
         /\ ~StartsWith(Lower(query), <<"delete task:">>)
         /\ Lower(query) = <<"cmd quit">>
         /\ user_input' = query
         /\ IF saved
            THEN /\ chat_file' = Some(chat_content(conversation_history))
                 /\ printed' = <<"Chat history saved. Goodbye!">>
            ELSE /\ chat_file' = chat_file
                 /\ printed' = <<"Error saving chat history: ",
                                 "Error saving chat history. Goodbye anyway!">>
         /\ pc' = "done"
    /\ UNCHANGED <<envVars, taskVars, conversation_history, system_messages,
                   retrieved, messages, calls, cycles>>

\* messages = self.system_messages or self.init_system_messages():
\* the list object that `messages` names
TherapyMessagesObject(cached, past) ==
    IF cached # None /\ cached[1] # <<>> THEN cached[1] ELSE init_system_messages(past)

\* self.conversation_history.append(self.create_message(query, 'user'))
TherapyAppendQuery(history, query) == Append(history, create_message(query, "user"))

\* messages.extend(self.conversation_history[-25:]) on the list object that
\* `messages` and self.system_messages both name
TherapyExtend(object, history) == object \o LastN(history, THERAPY_WINDOW)

\* a chat query whose ollama.chat call raises
TherapyChatFailed ==
    /\ pc = "loop" /\ variant = "therapy" /\ calls < MaxCalls
    /\ \E raw \in TherapyInputs :
         LET query == Strip(raw, WS)
             history == TherapyAppendQuery(conversation_history, query)
             extended == TherapyExtend(
                             TherapyMessagesObject(system_messages, past_chats_context),
                             history)
         IN
         /\ query # <<>>
         /\ ~StartsWith(Lower(query), <<"delete task:">>)
         /\ Lower(query) # <<"cmd quit">>
         /\ user_input' = query
         /\ conversation_history' = history
         /\ system_messages' = Some(extended)
         /\ messages' = extended
         /\ printed' = ErrorLine \o <<"CompletionFailed">>
    /\ calls' = calls + 1
    /\ UNCHANGED <<envVars, taskVars, pc, retrieved, chat_file, cycles>>

\* a chat query answered by the completion endpoint
TherapyChatReply ==
    /\ pc = "loop" /\ variant = "therapy" /\ calls < MaxCalls
    /\ \E raw \in TherapyInputs, reply \in Replies :
         LET query == Strip(raw, WS)
             history == TherapyAppendQuery(conversation_history, query)
             extended == TherapyExtend(
                             TherapyMessagesObject(system_messages, past_chats_context),
                             history)
         IN
         /\ query # <<>>
         /\ ~StartsWith(Lower(query), <<"delete task:">>)
         /\ Lower(query) # <<"cmd quit">>
         /\ user_input' = query
         /\ conversation_history' = Append(history, create_message(reply, "assistant"))
         /\ system_messages' = Some(extended)
         /\ messages' = extended
         /\ printed' = reply
    /\ calls' = calls + 1
    /\ cycles' = cycles + 1
    /\ UNCHANGED <<envVars, taskVars, pc, retrieved, chat_file>>

\* --------------------------------------------------------------- task
TaskInputs ==
    { <<"add task:", " ", "a", " ", "|", "P", "|", " ", "D", "|", "2025-03-01",
        "|", " ", "[", "u", ",", " ", "v", "]">>,
      <<"add task:", " ", "a", ":", " ", "|", " ", "P">>,
      <<"add task:", " ", "a">>,
      <<"complete task:", " ", "a">>, <<"complete task:", " ", "a", ":">>,
      <<"delete task:", " ", "A">>, <<"delete task:", " ", "a", ":">>,
      <<"show tasks">>, <<" ", "b", " ">>,
      <<"quit">>, <<"exit">>, <<"bye">> }

IsDelete(query) == StartsWith(Lower(query), <<"delete task:">>)
IsAdd(query) == ~IsDelete(query) /\ StartsWith(Lower(query), <<"add task:">>)
IsComplete(query) ==
    ~IsDelete(query) /\ ~IsAdd(query) /\ StartsWith(Lower(query), <<"complete task:">>)
IsList(query) ==
    /\ ~IsDelete(query) /\ ~IsAdd(query) /\ ~IsComplete(query)
    /\ Lower(query) \in { <<"what are my open tasks?">>, <<"what are all my open tasks?">>,
                          <<"show tasks">>, <<"show all tasks">>, <<"list tasks">>,
                          <<"list open tasks">> }
IsTaskQuit(user) == Lower(user) \in { <<"quit">>, <<"exit">>, <<"bye">> }
IsTaskChat(query) ==
    ~IsDelete(query) /\ ~IsAdd(query) /\ ~IsComplete(query) /\ ~IsList(query)

\* get_tasks: the cached dict, loaded from self.texts on the first call
get_tasks(cache, text) == IF cache # None THEN cache[1] ELSE json_loads(text[1])

\* new_task stamped with the date in complete_date as well
new_task_Stamped(task_name, project, description, due_date, relevant_links, day) ==
    [task_name |-> task_name, project |-> project, create_date |-> strftime(day),
     due_date |-> due_date, complete_date |-> strftime(day),
     description |-> description, relevant_links |-> relevant_links]

\* the new_task dict of add_task
new_task(task_name, project, description, due_date, relevant_links, day) ==
    [task_name |-> task_name, project |-> project, create_date |-> strftime(day),
     due_date |-> due_date, complete_date |-> None, description |-> description,
     relevant_links |-> relevant_links]

\* add_task on the dict get_tasks returned: the dict after the append
add_task(data, task) == [data EXCEPT !.open_tasks = Append(@, task)]

\* the name comparison of complete_task
CompleteMatches(task, task_name) == Strip(task.task_name, WS) = Strip(task_name, WS)

\* complete_task comparing with `task_name in task["task_name"]`
complete_task_Substring(data, task_name, day) ==
    LET hits == { i \in 1..Len(data.open_tasks) :
                    Contains(data.open_tasks[i].task_name, Strip(task_name, WS)) }
        last == CHOOSE i \in hits : \A j \in hits : j <= i
        remaining_tasks ==
            SelectSeq(data.open_tasks,
                      LAMBDA t : ~Contains(t.task_name, Strip(task_name, WS)))
        task_to_complete == [data.open_tasks[last] EXCEPT !.complete_date = strftime(day)]
    IN  IF hits = {}
        THEN [found |-> FALSE, data |-> data]
        ELSE [found |-> TRUE,
              data |-> [open_tasks |-> remaining_tasks,
                        completed_tasks |-> Append(data.completed_tasks, task_to_complete)]]

\* complete_task on the dict get_tasks returned: whether task_to_complete was
\* set, and the dict after the call.  The loop keeps the last matching task in
\* task_to_complete and puts only the tasks that do not match in remaining_tasks.
complete_task(data, task_name, day) ==
    LET hits == { i \in 1..Len(data.open_tasks) :
                    CompleteMatches(data.open_tasks[i], task_name) }
        last == CHOOSE i \in hits : \A j \in hits : j <= i
        remaining_tasks == SelectSeq(data.open_tasks,
                                     LAMBDA t : ~CompleteMatches(t, task_name))
        task_to_complete == [data.open_tasks[last] EXCEPT !.complete_date = strftime(day)]
    IN  IF hits = {}
        THEN [found |-> FALSE, data |-> data]
        ELSE [found |-> TRUE,
              data |-> [open_tasks |-> remaining_tasks,
                        completed_tasks |-> Append(data.completed_tasks, task_to_complete)]]

\* the name comparison of delete_task
DeleteMatches(task, task_name) ==
    Lower(Strip(task.task_name, WS)) = Lower(Strip(task_name, WS))

\* delete_task on the dict get_tasks returned: task_found, and the dict after
\* the two list comprehensions
delete_task(data, task_name) ==
    LET open == SelectSeq(data.open_tasks, LAMBDA t : ~DeleteMatches(t, task_name))
        completed == SelectSeq(data.completed_tasks,
                               LAMBDA t : ~DeleteMatches(t, task_name))
    IN  [found |-> Len(open) < Len(data.open_tasks)
                   \/ Len(completed) < Len(data.completed_tasks),
         data |-> [open_tasks |-> open, completed_tasks |-> completed]]

\* the task name "complete task:" hands to complete_task
CompleteName(query) == Strip(Tail(query), {":", " "})

\* the task name "delete task:" hands to delete_task
DeleteName(query) == Strip(Tail(query), WS)

\* relevant_links of the "add task:" branch
ParseLinks(parts) ==
    IF Len(parts) > 4
    THEN LET p == Strip(parts[5], WS)
             items == Split(SubSeq(p, 2, Len(p) - 1), ",")
         IN  [i \in 1..Len(items) |-> Strip(items[i], WS)]
    ELSE <<>>

\* the task the "add task:" branch hands to add_task
ParseTask(parts, day) ==
    new_task(Strip(parts[1], WS), Strip(parts[2], WS),
             IF Len(parts) > 2 THEN Strip(parts[3], WS) ELSE <<"No description provided">>,
             IF Len(parts) > 3 THEN Strip(parts[4], WS) ELSE <<"No due date">>,
             ParseLinks(parts), day)

\* datetime.now() moves to the next day
Tick ==
    /\ pc = "loop" /\ variant = "task" /\ today < MaxDay
    /\ today' = today + 1
    /\ UNCHANGED <<variant, past_chats_context, articles, failing, vectordb,
                   taskVars, pc,
                   conversation_history, system_messages, retrieved, messages,
                   user_input, printed, chat_file, calls, cycles>>

\* the loop's own test for 'quit', 'exit', 'bye'
TaskQuit ==
    /\ pc = "loop" /\ variant = "task"
    /\ \E raw \in TaskInputs :
         /\ IsTaskQuit(Strip(raw, WS))
         /\ user_input' = Strip(raw, WS)
    /\ printed' = <<"Goodbye!">>
    /\ pc' = "done"
    /\ UNCHANGED <<envVars, taskVars, conversation_history, system_messages,
                   retrieved, messages, chat_file, calls, cycles>>

\* "add task:" with fewer than two fields
TaskAddMalformed ==
    /\ pc = "loop" /\ variant = "task"
    /\ \E raw \in TaskInputs :
         LET query == Strip(raw, WS) IN
         /\ query # <<>> /\ ~IsTaskQuit(query)
         /\ IsAdd(query)
         /\ Len(Split(Tail(query), "|")) < 2
         /\ user_input' = query
    /\ printed' = <<"Error: Please provide at least Task Name and Project Name.">>
    /\ UNCHANGED <<envVars, taskVars, pc, conversation_history, system_messages,
                   retrieved, messages, chat_file, calls, cycles>>

\* save_tasks(data) after an in-place change of the cached dict: the cache
\* holds the change either way, the file and self.texts only when the write
\* succeeds
SaveTasks(data, saved) ==
    /\ tasks_data' = Some(data)
    /\ IF saved
       THEN /\ tasks_file' = Some(json_dumps(data))
            /\ tasks_text' = Some(json_dumps(data))
       ELSE UNCHANGED <<tasks_file, tasks_text>>

\* a failed lookup: only get_tasks has run
NoSave(data) ==
    /\ tasks_data' = Some(data)
    /\ UNCHANGED <<tasks_file, tasks_text>>

\* "add task: name | project | ..."
TaskAdd ==
    /\ pc = "loop" /\ variant = "task"
    /\ task_ops < MaxTaskOps /\ calls + task_ops < MaxTaskSession
    /\ \E raw \in TaskInputs, saved \in BOOLEAN :
         LET query == Strip(raw, WS)
             parts == Split(Tail(query), "|")
             task == ParseTask(parts, today)
         IN
         /\ query # <<>> /\ ~IsTaskQuit(query)
         /\ IsAdd(query)
         /\ Len(parts) >= 2
         /\ user_input' = query
         /\ SaveTasks(add_task(get_tasks(tasks_data, tasks_text), task), saved)
         /\ printed' = IF saved
                       THEN <<"Task '">> \o task.task_name \o <<"' added to project '">>
                              \o task.project \o <<"' successfully!">>
                       ELSE <<"Error saving tasks: ",
                              "Error adding task: Failed to save to file">>
    /\ task_ops' = task_ops + 1
    /\ UNCHANGED <<envVars, pc, conversation_history, system_messages,
                   retrieved, messages, chat_file, calls, cycles>>

\* "complete task: name"
TaskComplete ==
    /\ pc = "loop" /\ variant = "task"
    /\ task_ops < MaxTaskOps /\ calls + task_ops < MaxTaskSession
    /\ \E raw \in TaskInputs, saved \in BOOLEAN :
         LET query == Strip(raw, WS)
             task_name == CompleteName(query)
             done == complete_task(get_tasks(tasks_data, tasks_text), task_name, today)
         IN
         /\ query # <<>> /\ ~IsTaskQuit(query)
         /\ IsComplete(query)
         /\ user_input' = query
         /\ IF done.found
            THEN /\ SaveTasks(done.data, saved)
                 /\ printed' =
                      IF saved
                      THEN <<"Task '">> \o task_name \o <<"' marked as complete!">>
                      ELSE <<"Error saving tasks: ", "Error: Could not find task '">>
                             \o task_name \o <<"'">>
            ELSE /\ saved
                 /\ NoSave(done.data)
                 /\ printed' = <<"Error: Could not find task '">> \o task_name \o <<"'">>
    /\ task_ops' = task_ops + 1
    /\ UNCHANGED <<envVars, pc, conversation_history, system_messages,
                   retrieved, messages, chat_file, calls, cycles>>

\* "delete task: name"
TaskDelete ==
    /\ pc = "loop" /\ variant = "task"
    /\ task_ops < MaxTaskOps /\ calls + task_ops < MaxTaskSession
    /\ \E raw \in TaskInputs, saved \in BOOLEAN :
         LET query == Strip(raw, WS)
             task_name == DeleteName(query)
             gone == delete_task(get_tasks(tasks_data, tasks_text), task_name)
         IN
         /\ query # <<>> /\ ~IsTaskQuit(query)
         /\ IsDelete(query)
         /\ user_input' = query
         /\ IF gone.found
            THEN /\ SaveTasks(gone.data, saved)
                 /\ printed' =
                      IF saved
                      THEN <<"Task '">> \o task_name
                             \o <<"' has been deleted from tasks file.">>
                      ELSE <<"Error saving tasks: ", "Error: Could not find task '">>
                             \o task_name \o <<"'.">>
            ELSE /\ saved
                 /\ NoSave(gone.data)
                 /\ printed' = <<"Error: Could not find task '">> \o task_name \o <<"'.">>
    /\ task_ops' = task_ops + 1
    /\ UNCHANGED <<envVars, pc, conversation_history, system_messages,
                   retrieved, messages, chat_file, calls, cycles>>

\* the listing's text: one entry per open task
RECURSIVE OpenTasksLines(_)
OpenTasksLines(tasks) ==
    IF tasks = <<>>
    THEN <<>>
    ELSE <<"\n- ">> \o Head(tasks).task_name \o <<" (Due: ">> \o Head(tasks).due_date
           \o <<")", "\n  Project: ">> \o Head(tasks).project
           \o <<"\n  Description: ">> \o Head(tasks).description
           \o OpenTasksLines(Tail(tasks))

\* "show tasks" and the other listing questions
TaskList ==
    /\ pc = "loop" /\ variant = "task"
    /\ task_ops < MaxTaskOps /\ calls + task_ops < MaxTaskSession
    /\ \E raw \in TaskInputs :
         LET query == Strip(raw, WS)
             data == get_tasks(tasks_data, tasks_text)
         IN
         /\ query # <<>> /\ ~IsTaskQuit(query)
         /\ IsList(query)
         /\ user_input' = query
         /\ NoSave(data)
         /\ printed' = IF data.open_tasks # <<>>
                       THEN <<"Open Tasks:\n">> \o OpenTasksLines(data.open_tasks)
                       ELSE <<"No open tasks found.">>
    /\ task_ops' = task_ops + 1
    /\ UNCHANGED <<envVars, pc, conversation_history, system_messages,
                   retrieved, messages, chat_file, calls, cycles>>

TaskChatFailed ==
    /\ pc = "loop" /\ variant = "task"
    /\ calls < MaxCalls /\ calls + task_ops < MaxTaskSession
    /\ \E raw \in TaskInputs :
         LET query == Strip(raw, WS) IN
         /\ query # <<>> /\ ~IsTaskQuit(query)
         /\ IsTaskChat(query)
         /\ user_input' = query
         /\ messages' = WindowMessages(TaskSystemMessages, conversation_history, query)
         /\ printed' = ErrorLine \o <<"CompletionFailed">>
    /\ calls' = calls + 1
    /\ UNCHANGED <<envVars, taskVars, pc, conversation_history, system_messages,
                   retrieved, chat_file, cycles>>

TaskChatReply ==
    /\ pc = "loop" /\ variant = "task"
    /\ calls < MaxCalls /\ calls + task_ops < MaxTaskSession
    /\ \E raw \in TaskInputs, reply \in Replies :
         LET query == Strip(raw, WS) IN
         /\ query # <<>> /\ ~IsTaskQuit(query)
         /\ IsTaskChat(query)
         /\ user_input' = query
         /\ messages' = WindowMessages(TaskSystemMessages, conversation_history, query)
         /\ conversation_history' = AppendExchange(conversation_history, query, reply)
         /\ printed' = reply
    /\ calls' = calls + 1
    /\ cycles' = cycles + 1
    /\ UNCHANGED <<envVars, taskVars, pc, system_messages, retrieved, chat_file>>

\* ---------------------------------------------------------------- Next
Next ==
    \/ StartChatGtm \/ StartChatSpanish \/ StartChatTherapy \/ StartChatTask
    \/ EmptyInput \/ KeyboardInterrupt \/ Tick
    \/ GtmQuit \/ GtmSearchFailed \/ GtmChatFailed \/ GtmChatReply
    \/ SpanishQuit \/ SpanishChatFailed \/ SpanishChatReply
    \/ TherapyDelete \/ TherapyQuit \/ TherapyChatFailed \/ TherapyChatReply
    \/ TaskQuit \/ TaskAddMalformed \/ TaskAdd \/ TaskComplete \/ TaskDelete
    \/ TaskList \/ TaskChatFailed \/ TaskChatReply

Spec == Init /\ [][Next]_vars

\* =====================================================================
\* The properties checked of the model
\* =====================================================================

\* the step handed a prompt to the completion endpoint
CompletionCalled == calls' = calls + 1

\* the completion call of the step raised
CompletionFailed ==
    CompletionCalled /\ printed' = ErrorLine \o <<"CompletionFailed">>

IsPrefix(s, t) == Len(s) <= Len(t) /\ SubSeq(t, 1, Len(s)) = s

\* C1: in every variant, a turn whose completion call fails leaves the
\* conversation as it was: conversation_history holds the same messages in
\* the same order (the failed query is not appended) and the session's system
\* messages are unchanged.
C1_FailedTurnLeavesConversation ==
    [][CompletionFailed =>
         /\ conversation_history' = conversation_history
         /\ system_messages' = system_messages]_vars

\* the system messages of the session at a completion call: the ones the
\* variant builds for the query, or (therapy) the three built at construction
SessionSystemMessages ==
    CASE variant = "gtm" -> GtmSystemMessages(retrieved'.context, retrieved'.sources)
      [] variant = "spanish" -> SpanishSystemMessages(past_chats_context)
      [] variant = "task" -> TaskSystemMessages
      [] variant = "therapy" -> init_system_messages(past_chats_context)

\* the window size N of the variant
WindowOf(v) == IF v = "therapy" THEN THERAPY_WINDOW ELSE WINDOW

\* the most recent n messages of h, in their order
MostRecent(h, n) ==
    LET m == Min(n, Len(h)) IN [i \in 1..m |-> h[Len(h) - m + i]]

\* C2: at every completion call of every variant, the list handed to the
\* endpoint is the session's system messages, then the most recent N messages
\* of the history stored before the call (N = 5, or 25 in the therapy
\* variant), then the new user message once, as the last element.
C2_PromptIsSystemWindowQuery ==
    [][CompletionCalled =>
         messages' = SessionSystemMessages
                       \o MostRecent(conversation_history, WindowOf(variant))
                       \o <<create_message(user_input', "user")>>]_vars

\* C3: in the therapy variant self.system_messages is, for the whole session,
\* the three system messages init_system_messages built at construction.
C3_TherapySystemMessagesFixed ==
    (variant = "therapy" /\ pc # "new") =>
        system_messages = Some(init_system_messages(past_chats_context))

\* C4: the conversation history is append-only: whatever input the loop
\* handles, the history before is a prefix of the history after.
C4_HistoryAppendOnly ==
    [][IsPrefix(conversation_history, conversation_history')]_vars

\* the number of system messages at the head of a window-5 variant's prompt
SystemCount(v) == IF v = "task" THEN 1 ELSE 2

\* what C5 says of one step
C5_Step ==
    variant \in {"gtm", "spanish", "task"} =>
      /\ Len(conversation_history') = 2 * cycles'
      /\ CompletionCalled =>
           LET window == SubSeq(messages', SystemCount(variant) + 1,
                                Len(messages') - 1)
               n == Len(window)
           IN  /\ n = Min(WINDOW, 2 * cycles)
               /\ \A i \in 1..n :
                    window[i] = conversation_history[2 * cycles - n + i]

\* C5: in the window-5 variants (gtm, spanish, task) the stored history holds
\* exactly 2N messages after N successful cycles, and the window inside the
\* next prompt is the most recent 5 of them in their stored order, or all of
\* them when 2N < 5.
C5_WindowIsMostRecentFive ==
    [][C5_Step]_vars

\* C5 witness: a spanish prompt built after three or more cycles, whose
\* window holds five of the six or more stored messages
C5_Witness ==
    /\ variant = "spanish"
    /\ cycles >= 3
    /\ Len(conversation_history) > WINDOW
    /\ Len(messages) = SystemCount(variant) + WINDOW + 1

\* the block search_documents writes for one result
ResultBlock(doc) ==
    <<"\nFrom ", Basename(doc.source), ":\n">> \o doc.page_content \o <<"\n">>

\* the blocks of results i, i+1, ... one after the other
RECURSIVE BlocksFrom(_, _)
BlocksFrom(results, i) ==
    IF i > Len(results) THEN <<>>
    ELSE ResultBlock(results[i]) \o BlocksFrom(results, i + 1)

\* where a source identifier first occurs in a result list
FirstSeen(results, source) ==
    CHOOSE i \in 1..Len(results) :
        /\ Basename(results[i].source) = source
        /\ \A j \in 1..(i - 1) : Basename(results[j].source) # source

\* C9: for the result list similarity_search returned, search_documents
\* returns a context made of one block per result in result order (a header
\* naming the result's source, then its chunk text) and a sources list holding
\* every source identifier of the results once, in first-seen order; an empty
\* result list gives context "" and sources [].
C9_SearchDocumentsResult ==
    LET results == retrieved.results
        sources == retrieved.sources
    IN  /\ retrieved.context = BlocksFrom(results, 1)
        /\ Range(sources) = { Basename(results[i].source) : i \in 1..Len(results) }
        /\ \A a, b \in 1..Len(sources) :
             a < b => FirstSeen(results, sources[a]) < FirstSeen(results, sources[b])
        /\ results = <<>> => (retrieved.context = <<>> /\ sources = <<>>)

\* C9 witness: a search that returned three chunks of two files
C9_Witness ==
    /\ variant = "gtm"
    /\ Len(retrieved.results) = 3
    /\ Len(retrieved.sources) = 2
    /\ retrieved.context # <<>>

\* C10: at gtm startup a document whose ingestion fails is skipped: the
\* session is still constructed and the index holds the chunks of every
\* other document.
C10_FailedDocumentIsSkipped ==
    (variant = "gtm" /\ pc # "new") =>
        /\ pc # "crashed"
        /\ vectordb = split_documents(articles \ failing)

\* the tasks dict the commands of the task variant see
TaskView == get_tasks(tasks_data, tasks_text)

\* the step ran a task command
TaskCommandRun == variant = "task" /\ task_ops' = task_ops + 1

\* the name typed after "complete task:" or "delete task:"
TypedName(query) == Strip(Tail(query), WS)

\* what C6 says of one step: "complete task: n" in a store that holds, saved,
\* exactly one open task named n
C6_Step ==
    LET n == TypedName(user_input')
        open == TaskView.open_tasks
        named == { i \in 1..Len(open) : open[i].task_name = n }
        record == open[CHOOSE i \in named : TRUE]
        after == get_tasks(tasks_data', tasks_text')
    IN  ( /\ TaskCommandRun
          /\ IsComplete(user_input')
          /\ tasks_file = Some(json_dumps(TaskView))
          /\ Cardinality(named) = 1 )
        => /\ \A i \in 1..Len(after.open_tasks) : after.open_tasks[i].task_name # n
           /\ [record EXCEPT !.complete_date = strftime(today)]
                \in Range(after.completed_tasks)

\* C6: in the task variant, for any task name n, once "add task: n | ..." has
\* stored the one open task named n, "complete task: n" leaves no task named n
\* in open_tasks and puts that record in completed_tasks with complete_date set
\* to the current date and its other fields unchanged.
C6_AddThenCompleteMovesTask ==
    [][C6_Step]_vars

\* the step ended the session
Terminates == pc = "loop" /\ pc' = "done"

\* the step ran save_current_chat on the conversation: the transcript was
\* written, or the failed write was reported
SaveTriggered ==
    \/ chat_file' = Some(chat_content(conversation_history))
    \/ (printed' # <<>> /\ printed'[1] = "Error saving chat history: ")

\* once the session has ended no input is handled and nothing changes
NothingAfterTermination ==
    pc = "done" => UNCHANGED vars

\* what the original C7 says of one step
C7_OriginalStep ==
    /\ Terminates => SaveTriggered
    /\ NothingAfterTermination

\* C7 as stated: every termination of a session (the variant's quit command
\* or a keyboard interrupt) triggers the session-store save of the current
\* conversation, and after termination no input is handled.
C7_TerminationSaves ==
    [][C7_OriginalStep]_vars

\* what the amended C7 says of one step
C7_AmendedStep ==
    /\ ( /\ Terminates
         /\ variant \in {"spanish", "therapy"}
         /\ Lower(user_input') = <<"cmd quit">>
         /\ printed' # <<"\nGoodbye!">> ) => SaveTriggered
    /\ ( /\ Terminates
         /\ \/ variant \in {"gtm", "task"}
            \/ printed' = <<"\nGoodbye!">> ) => chat_file' = chat_file
    /\ NothingAfterTermination

\* C7 amended: the "cmd quit" command of the spanish and therapy variants
\* triggers save_current_chat on the current conversation; the quit commands
\* of the gtm and task variants and a keyboard interrupt end the session
\* without saving; after termination no input is handled and the history
\* never changes again.
C7_QuitCommandSaves ==
    [][C7_AmendedStep]_vars

\* C7 witness: a spanish session ended by "cmd quit" with its conversation
\* written to the chat file
C7_Witness ==
    /\ variant = "spanish"
    /\ pc = "done"
    /\ conversation_history # <<>>
    /\ chat_file = Some(chat_content(conversation_history))

\* the records of both task lists
StoredTasks == Range(TaskView.open_tasks) \cup Range(TaskView.completed_tasks)

\* the command of the step names no stored task
NamesNoStoredTask ==
    \/ /\ IsComplete(user_input')
       /\ \A t \in StoredTasks :
            Strip(t.task_name, WS) # Strip(CompleteName(user_input'), WS)
    \/ /\ IsDelete(user_input')
       /\ \A t \in StoredTasks :
            Lower(Strip(t.task_name, WS)) # Lower(Strip(DeleteName(user_input'), WS))

\* what C8 says of one step
C8_Step ==
    (TaskCommandRun /\ NamesNoStoredTask) =>
        /\ printed' # <<>>
        /\ printed'[1] = "Error: Could not find task '"
        /\ get_tasks(tasks_data', tasks_text') = TaskView
        /\ tasks_file' = tasks_file
        /\ tasks_text' = tasks_text

MaxTranscript == 4

\* the lines of a text: its line ends
LineCount(text) == Cardinality({ i \in DOMAIN text : text[i] = "\n" })

\* the conversations of user and assistant messages a session can hold
TranscriptMessages ==
    { create_message(content, role) :
        content \in { <<"a">> } \cup SpanishReplies, role \in { "user", "assistant" } }
Conversations == UNION { [1..n -> TranscriptMessages] : n \in 0..MaxTranscript }

\* C11: a saved transcript holds one line per message of the conversation,
\* and the conversation can be read back from it: no other conversation is
\* saved as the same text.
C11_TranscriptRoundTrip ==
    chat_file # None =>
        /\ LineCount(chat_file[1]) = Len(conversation_history)
        /\ \A other \in Conversations :
             chat_content(other) = chat_file[1] => other = conversation_history


\* ------------------------------------------------------------------ C12
\* the step reports a failure: the loop's `except Exception` line, or the line
\* save_tasks / save_current_chat prints when the write fails
TurnFailed ==
    /\ pc = "loop" /\ printed' # <<>>
    /\ printed'[1] \in { ErrorLine[1], "Error saving tasks: ",
                          "Error saving chat history: " }

\* the line read in this step is the quit command of the variant
QuitTyped ==
    /\ user_input' # <<>>
    /\ CASE variant = "gtm" -> Lower(user_input') = <<"quit">>
         [] variant \in { "spanish", "therapy" } -> Lower(user_input') = <<"cmd quit">>
         [] variant = "task" -> IsTaskQuit(user_input')

\* the step is the loop's `except KeyboardInterrupt`
Interrupted == printed' = <<"\nGoodbye!">> /\ UNCHANGED user_input

C12_Step ==
    /\ (TurnFailed /\ ~QuitTyped) => pc' = "loop"
    /\ (pc = "loop" /\ pc' # "loop") => /\ pc' = "done"
                                         /\ (QuitTyped \/ Interrupted)

\* C12: a turn that fails (retrieval, completion, a failed save) is reported
\* and the loop goes on reading input; the loop is left only by the quit
\* command of the variant or by a keyboard interrupt.
C12_FailedTurnKeepsLoop == [][C12_Step]_vars

\* a retrieval failure reported after an earlier exchange, the loop still
\* reading
C12_Witness ==
    /\ variant = "gtm" /\ pc = "loop"
    /\ conversation_history # <<>>
    /\ printed = ErrorLine \o <<"EmbeddingUnavailable">>


\* ------------------------------------------------------------------ C13
\* what C13 says of one "complete task:" step
C13_Step ==
    LET before == TaskView
        after == get_tasks(tasks_data', tasks_text')
    IN  (TaskCommandRun /\ IsComplete(user_input')) =>
          /\ Len(after.open_tasks) + Len(after.completed_tasks)
               = Len(before.open_tasks) + Len(before.completed_tasks)
          /\ \A i \in DOMAIN before.open_tasks :
               before.open_tasks[i] \notin Range(after.open_tasks) =>
                 \E j \in DOMAIN after.completed_tasks :
                   [after.completed_tasks[j] EXCEPT !.complete_date = None]
                     = before.open_tasks[i]

\* C13: complete_task loses no task record: open_tasks and completed_tasks
\* hold together as many records after the call as before, and every record
\* that left open_tasks is in completed_tasks, also when several open tasks
\* share the name.
C13_CompleteKeepsEveryRecord == [][C13_Step]_vars


\* ------------------------------------------------------------------ C14
\* C14: whatever writes of the tasks file failed, the tasks the session holds
\* in memory (what listing and later commands see) are the content last
\* written to the tasks file.
C14_CacheIsLastSavedFile ==
    (variant = "task" /\ pc # "new") => TaskView = json_loads(tasks_file[1])


\* ------------------------------------------------------------------ C15
\* the seven fields of a task record
TaskFields ==
    { "task_name", "project", "create_date", "due_date", "complete_date",
      "description", "relevant_links" }

\* the two lists of a tasks dict hold well-shaped records
WellShaped(data) ==
    /\ \A i \in DOMAIN data.open_tasks :
         /\ DOMAIN data.open_tasks[i] = TaskFields
         /\ data.open_tasks[i].complete_date = None
    /\ \A i \in DOMAIN data.completed_tasks :
         /\ DOMAIN data.completed_tasks[i] = TaskFields
         /\ data.completed_tasks[i].complete_date # None

\* C15: from the freshly initialised task file, after any add, complete and
\* delete commands, every record of open_tasks has complete_date null, every
\* record of completed_tasks has a complete_date, and every record carries
\* exactly the seven fields; in memory and in the tasks file.
C15_RecordShapes ==
    (variant = "task" /\ pc # "new") =>
        /\ WellShaped(TaskView)
        /\ WellShaped(json_loads(tasks_file[1]))

\* a saved store with an open and a completed record
C15_Witness ==
    /\ variant = "task" /\ pc = "loop"
    /\ TaskView.open_tasks # <<>> /\ TaskView.completed_tasks # <<>>
    /\ tasks_file = Some(json_dumps(TaskView))

====
